---- MODULE Spec2Model ----
(***************************************************************************)
(* Model of the nutrition scoring engine of nutrition-backend:             *)
(*   utils/nutri_score.py  NutriScoreCalculator (a stateful instance)      *)
(*   utils/helpers.py      calculate_nutriscore_scale_100,                 *)
(*                         convert_nutri_score, calculate_additive_risk,   *)
(*                         fetch_and_calculate,                            *)
(*                         process_image_and_calculate                     *)
(*   utils/constants.py    the option names, defaults and penalty tables   *)
(*                                                                         *)
(* Numbers.  The Python code computes on floats with one decimal in the    *)
(* tables.  Here a nutrient amount x is the integer 10*x (tenths), a       *)
(* profile factor f is the integer ProfileDen*f, and a product             *)
(* amount*factor is therefore in units of 1/(10*ProfileDen); a table that  *)
(* such a product is compared with is brought to the same unit by          *)
(* InProfileUnits.  The arithmetic is exact.                               *)
(***************************************************************************)
EXTENDS Integers, Sequences, FiniteSets, TLC

VARIABLES
    calc,   \* the fields of one NutriScoreCalculator instance
    fn,     \* the name of the last function or method called
    args,   \* its arguments, with what it read: the reference records of
            \* data/additives.json and the response of the product service
    ret,    \* what it returned or raised
    data    \* the content of data/nutri_score_conversion.json

vars == <<calc, fn, args, ret, data>>

(***************************************************************************)
(* Bounds of the model                                                     *)
(***************************************************************************)
\* profile factors are the fractions k/ProfileDen, k in 1..MaxProfile
ProfileDen == 2
MaxProfile == 3
\* calculate_additive_risk is called with lists of at most MaxAdditives identifiers
MaxAdditives == 3

(***************************************************************************)
(* nutri_score.py, lines 1-47: the module constants                        *)
(***************************************************************************)
GENERAL_FOOD == "general_food"
RED_MEAT == "red_meat"
CHEESE == "cheese"
FATS_NUTS_SEEDS == "fats_oils_nuts_seeds"
BEVERAGES == "beverages"
WATER == "water"

ENERGY == "energy"
ENERGY_FROM_SATURATES == "energy_from_saturates"
SATURATED_FAT == "saturated_fat"
SATURATES_OVER_TOTAL_FAT == "saturates_over_total_fat"
SUGARS == "sugars"
NN_SWEETENERS == "non_nutritive_sweeteners"
SODIUM == "sodium"
PROTEIN == "protein"
FIBER == "fiber"
FRUIT_PERCENTAGE == "fruit_vegetables_legumes_percentage"

\* the threshold tables, in tenths
ENERGY_THRESHOLD == <<3350, 6700, 10050, 13400, 16750, 20100, 23450, 26800, 30150, 33500>>
SATURATED_FAT_THRESHOLD == <<10, 20, 30, 40, 50, 60, 70, 80, 90, 100>>
SUGARS_THRESHOLD == <<34, 68, 100, 140, 170, 200, 240, 270, 310, 340, 370, 410, 440, 480, 510>>
SODIUM_THRESHOLD == <<2, 4, 6, 8, 10, 12, 14, 16, 18, 20, 22, 24, 26, 28, 30, 32, 34, 36, 38, 40>>

ENERGY_FROM_SATURATES_THRESHOLD == <<1200, 2400, 3600, 4800, 6000, 7200, 8400, 9600, 10800, 12000>>
SATURATES_OVER_TOTAL_FAT_THRESHOLD == <<100, 160, 220, 280, 340, 400, 460, 520, 580, 640>>

ENERGY_BEVERAGES_THRESHOLD == <<300, 900, 1500, 2100, 2400, 2700, 3000, 3300, 3600, 3900>>
SUGARS_BEVERAGES_THRESHOLD == <<5, 20, 35, 50, 60, 70, 80, 90, 100, 110>>

PROTEIN_THRESHOLD == <<24, 48, 72, 96, 120, 140, 170>>
FIBER_THRESHOLD == <<30, 41, 52, 63, 74>>
FRUIT_THRESHOLD == <<400, 600, 800, 800, 800>>

PROTEIN_BEVERAGES_THRESHOLD == <<12, 15, 18, 21, 24, 27, 30>>
FRUIT_BEVERAGES_THRESHOLD == <<400, 400, 600, 600, 800, 800>>

\* the category thresholds: (threshold, letter) pairs
GENERAL_FODD_CATEGORY_THRESHOLD == <<<<0, "A">>, <<2, "B">>, <<10, "C">>, <<18, "D">>>>
FATS_NUTS_SEEDS_CATEGORY_THRESHOLD == <<<<-6, "A">>, <<2, "B">>, <<10, "C">>, <<18, "D">>>>
BEVERAGES_CATEGORY_THRESHOLD == <<<<1, "B">>, <<6, "C">>, <<9, "D">>>>

FoodTypes == {GENERAL_FOOD, RED_MEAT, CHEESE, FATS_NUTS_SEEDS, BEVERAGES, WATER}

(***************************************************************************)
(* Python values                                                           *)
(***************************************************************************)
\* dict.get(key, default) on a dict modelled as a function on its keys
Get(d, key, default) == IF key \in DOMAIN d THEN d[key] ELSE default

\* the empty dict {}
EmptyDict == <<>>

\* an attribute that was never assigned
NoAttr == -1

\* what a call produced: a returned number, a returned letter, a returned
\* (number, list) pair, or an exception
Returned(score) == [status |-> "ok", score |-> score, category |-> "", list |-> <<>>]
ReturnedCategory(letter) == [status |-> "ok", score |-> 0, category |-> letter, list |-> <<>>]
ReturnedPair(score, list) == [status |-> "ok", score |-> score, category |-> "", list |-> list]
Raised(exc) == [status |-> exc, score |-> 0, category |-> "", list |-> <<>>]
NoReturn == [status |-> "none", score |-> 0, category |-> "", list |-> <<>>]

\* a table of tenths in the unit of a profile-scaled amount
InProfileUnits(threshold_list) ==
    [i \in DOMAIN threshold_list |-> ProfileDen * threshold_list[i]]

(***************************************************************************)
(* NutriScoreCalculator                                                    *)
(***************************************************************************)
\* setup_profiles(profiles): the four factors, 1 (= ProfileDen/ProfileDen) by default
setup_profiles(self, profiles) ==
    [self EXCEPT !.energy_profile = Get(profiles, ENERGY, ProfileDen),
                 !.saturated_fat_profile = Get(profiles, SATURATED_FAT, ProfileDen),
                 !.sugar_profile = Get(profiles, SUGARS, ProfileDen),
                 !.sodium_profile = Get(profiles, SODIUM, ProfileDen)]

\* __init__: an instance with the default profile and no nutrient attribute yet
NewCalculator ==
    setup_profiles([energy_profile |-> NoAttr, saturated_fat_profile |-> NoAttr,
                    sugar_profile |-> NoAttr, sodium_profile |-> NoAttr,
                    energy |-> NoAttr, energy_from_saturates |-> NoAttr,
                    saturated_fat |-> NoAttr, saturates_over_total_fat |-> NoAttr,
                    sugars |-> NoAttr, nn_sweeteners |-> FALSE, sodium |-> NoAttr,
                    protein |-> NoAttr, fiber |-> NoAttr, fruit_percentage |-> NoAttr],
                   EmptyDict)

\* a plausible slip: a key missing from the record leaves the attribute of the
\* previous call in place
get_input_keeping(self, nutritions) ==
    [self EXCEPT
        !.energy = Get(nutritions, ENERGY, 0) * self.energy_profile,
        !.energy_from_saturates = Get(nutritions, ENERGY_FROM_SATURATES, 0) * self.energy_profile,
        !.saturated_fat = Get(nutritions, SATURATED_FAT, 0) * self.saturated_fat_profile,
        !.saturates_over_total_fat =
            Get(nutritions, SATURATES_OVER_TOTAL_FAT, 0) * self.saturated_fat_profile,
        !.sugars = Get(nutritions, SUGARS, 0) * self.sugar_profile,
        !.nn_sweeteners = Get(nutritions, NN_SWEETENERS, FALSE),
        !.sodium = Get(nutritions, SODIUM, 0) * self.sodium_profile,
        !.protein = Get(nutritions, PROTEIN, IF self.protein = NoAttr THEN 0 ELSE self.protein),
        !.fiber = Get(nutritions, FIBER, IF self.fiber = NoAttr THEN 0 ELSE self.fiber),
        !.fruit_percentage = Get(nutritions, FRUIT_PERCENTAGE, 0)]

\* a plausible slip: sodium multiplied by the sugars factor
get_input_sodium_by_sugar(self, nutritions) ==
    [self EXCEPT
        !.energy = Get(nutritions, ENERGY, 0) * self.energy_profile,
        !.energy_from_saturates = Get(nutritions, ENERGY_FROM_SATURATES, 0) * self.energy_profile,
        !.saturated_fat = Get(nutritions, SATURATED_FAT, 0) * self.saturated_fat_profile,
        !.saturates_over_total_fat =
            Get(nutritions, SATURATES_OVER_TOTAL_FAT, 0) * self.saturated_fat_profile,
        !.sugars = Get(nutritions, SUGARS, 0) * self.sugar_profile,
        !.nn_sweeteners = Get(nutritions, NN_SWEETENERS, FALSE),
        !.sodium = Get(nutritions, SODIUM, 0) * self.sugar_profile,
        !.protein = Get(nutritions, PROTEIN, 0),
        !.fiber = Get(nutritions, FIBER, 0),
        !.fruit_percentage = Get(nutritions, FRUIT_PERCENTAGE, 0)]

\* get_input(nutritions): every nutrient attribute is assigned, 0/False when the key
\* is missing; the four profiled amounts are multiplied by their factor
get_input(self, nutritions) ==
    [self EXCEPT
        !.energy = Get(nutritions, ENERGY, 0) * self.energy_profile,
        !.energy_from_saturates = Get(nutritions, ENERGY_FROM_SATURATES, 0) * self.energy_profile,
        !.saturated_fat = Get(nutritions, SATURATED_FAT, 0) * self.saturated_fat_profile,
        !.saturates_over_total_fat =
            Get(nutritions, SATURATES_OVER_TOTAL_FAT, 0) * self.saturated_fat_profile,
        !.sugars = Get(nutritions, SUGARS, 0) * self.sugar_profile,
        !.nn_sweeteners = Get(nutritions, NN_SWEETENERS, FALSE),
        !.sodium = Get(nutritions, SODIUM, 0) * self.sodium_profile,
        !.protein = Get(nutritions, PROTEIN, 0),
        !.fiber = Get(nutritions, FIBER, 0),
        !.fruit_percentage = Get(nutritions, FRUIT_PERCENTAGE, 0)]

\* the loop of points_by_threshold from index i (1-based here, 0-based in Python)
RECURSIVE points_scan(_, _, _)
points_scan(value, threshold_list, i) ==
    IF i > Len(threshold_list) THEN Len(threshold_list)
    ELSE IF value <= threshold_list[i] THEN i - 1
    ELSE points_scan(value, threshold_list, i + 1)

\* a plausible slip: < in place of <=
RECURSIVE points_scan_strict(_, _, _)
points_scan_strict(value, threshold_list, i) ==
    IF i > Len(threshold_list) THEN Len(threshold_list)
    ELSE IF value < threshold_list[i] THEN i - 1
    ELSE points_scan_strict(value, threshold_list, i + 1)

points_by_threshold_strict(value, threshold_list) ==
    points_scan_strict(value, threshold_list, 1)

\* points_by_threshold(value, threshold_list)
points_by_threshold(value, threshold_list) ==
    points_scan(value, threshold_list, 1)

\* a plausible slip: the sweetener points are added in every category
calculate_negative_points_sweet(self, food_type) ==
    LET sweeteners_points == IF self.nn_sweeteners THEN 4 ELSE 0
        sugars_points == points_by_threshold(self.sugars, InProfileUnits(SUGARS_THRESHOLD))
        sodium_points == points_by_threshold(self.sodium, InProfileUnits(SODIUM_THRESHOLD))
    IN  IF food_type \in {GENERAL_FOOD, RED_MEAT, CHEESE} THEN
            points_by_threshold(self.energy, InProfileUnits(ENERGY_THRESHOLD))
            + points_by_threshold(self.saturated_fat, InProfileUnits(SATURATED_FAT_THRESHOLD))
            + sugars_points + sodium_points + sweeteners_points
        ELSE IF food_type = FATS_NUTS_SEEDS THEN
            points_by_threshold(self.energy_from_saturates,
                                InProfileUnits(ENERGY_FROM_SATURATES_THRESHOLD))
            + sugars_points
            + points_by_threshold(self.saturates_over_total_fat,
                                  InProfileUnits(SATURATES_OVER_TOTAL_FAT_THRESHOLD))
            + sodium_points + sweeteners_points
        ELSE IF food_type = BEVERAGES THEN
            points_by_threshold(self.energy, InProfileUnits(ENERGY_BEVERAGES_THRESHOLD))
            + points_by_threshold(self.saturated_fat, InProfileUnits(SATURATED_FAT_THRESHOLD))
            + points_by_threshold(self.sugars, InProfileUnits(SUGARS_BEVERAGES_THRESHOLD))
            + sodium_points + sweeteners_points
        ELSE 0

\* a plausible slip: the sugars of a beverage are scored against the table of the solid foods
calculate_negative_points_solid_sugars(self, food_type) ==
    IF food_type \in {GENERAL_FOOD, RED_MEAT, CHEESE} THEN
        LET energy_points == points_by_threshold(self.energy, InProfileUnits(ENERGY_THRESHOLD))
            saturated_fat_points ==
                points_by_threshold(self.saturated_fat, InProfileUnits(SATURATED_FAT_THRESHOLD))
            sugars_points == points_by_threshold(self.sugars, InProfileUnits(SUGARS_THRESHOLD))
            sodium_points == points_by_threshold(self.sodium, InProfileUnits(SODIUM_THRESHOLD))
        IN  energy_points + saturated_fat_points + sugars_points + sodium_points
    ELSE IF food_type = FATS_NUTS_SEEDS THEN
        LET energy_from_saturates_points ==
                points_by_threshold(self.energy_from_saturates,
                                    InProfileUnits(ENERGY_FROM_SATURATES_THRESHOLD))
            saturates_over_total_fat_points ==
                points_by_threshold(self.saturates_over_total_fat,
                                    InProfileUnits(SATURATES_OVER_TOTAL_FAT_THRESHOLD))
            sugars_points == points_by_threshold(self.sugars, InProfileUnits(SUGARS_THRESHOLD))
            sodium_points == points_by_threshold(self.sodium, InProfileUnits(SODIUM_THRESHOLD))
        IN  energy_from_saturates_points + sugars_points
            + saturates_over_total_fat_points + sodium_points
    ELSE IF food_type = BEVERAGES THEN
        LET energy_points ==
                points_by_threshold(self.energy, InProfileUnits(ENERGY_BEVERAGES_THRESHOLD))
            saturated_fat_points ==
                points_by_threshold(self.saturated_fat, InProfileUnits(SATURATED_FAT_THRESHOLD))
            sugars_points == points_by_threshold(self.sugars, InProfileUnits(SUGARS_THRESHOLD))
            sodium_points == points_by_threshold(self.sodium, InProfileUnits(SODIUM_THRESHOLD))
            sweeteners_points == IF self.nn_sweeteners THEN 4 ELSE 0
        IN  energy_points + saturated_fat_points + sugars_points + sodium_points
            + sweeteners_points
    ELSE 0

\* calculate_negative_points(food_type)
calculate_negative_points(self, food_type) ==
    IF food_type \in {GENERAL_FOOD, RED_MEAT, CHEESE} THEN
        LET energy_points == points_by_threshold(self.energy, InProfileUnits(ENERGY_THRESHOLD))
            saturated_fat_points ==
                points_by_threshold(self.saturated_fat, InProfileUnits(SATURATED_FAT_THRESHOLD))
            sugars_points == points_by_threshold(self.sugars, InProfileUnits(SUGARS_THRESHOLD))
            sodium_points == points_by_threshold(self.sodium, InProfileUnits(SODIUM_THRESHOLD))
        IN  energy_points + saturated_fat_points + sugars_points + sodium_points
    ELSE IF food_type = FATS_NUTS_SEEDS THEN
        LET energy_from_saturates_points ==
                points_by_threshold(self.energy_from_saturates,
                                    InProfileUnits(ENERGY_FROM_SATURATES_THRESHOLD))
            saturates_over_total_fat_points ==
                points_by_threshold(self.saturates_over_total_fat,
                                    InProfileUnits(SATURATES_OVER_TOTAL_FAT_THRESHOLD))
            sugars_points == points_by_threshold(self.sugars, InProfileUnits(SUGARS_THRESHOLD))
            sodium_points == points_by_threshold(self.sodium, InProfileUnits(SODIUM_THRESHOLD))
        IN  energy_from_saturates_points + sugars_points
            + saturates_over_total_fat_points + sodium_points
    ELSE IF food_type = BEVERAGES THEN
        LET energy_points ==
                points_by_threshold(self.energy, InProfileUnits(ENERGY_BEVERAGES_THRESHOLD))
            saturated_fat_points ==
                points_by_threshold(self.saturated_fat, InProfileUnits(SATURATED_FAT_THRESHOLD))
            sugars_points ==
                points_by_threshold(self.sugars, InProfileUnits(SUGARS_BEVERAGES_THRESHOLD))
            sodium_points == points_by_threshold(self.sodium, InProfileUnits(SODIUM_THRESHOLD))
            sweeteners_points == IF self.nn_sweeteners THEN 4 ELSE 0
        IN  energy_points + saturated_fat_points + sugars_points + sodium_points
            + sweeteners_points
    ELSE 0

Min(a, b) == IF a <= b THEN a ELSE b
Max(a, b) == IF a >= b THEN a ELSE b

\* the three positive components before the category rules
fiber_points_of(self) == points_by_threshold(self.fiber, FIBER_THRESHOLD)
protein_points_of(self, food_type) ==
    IF food_type # BEVERAGES
    THEN points_by_threshold(self.protein, PROTEIN_THRESHOLD)
    ELSE points_by_threshold(self.protein, PROTEIN_BEVERAGES_THRESHOLD)
fruit_points_of(self, food_type) ==
    IF food_type # BEVERAGES
    THEN points_by_threshold(self.fruit_percentage, FRUIT_THRESHOLD)
    ELSE points_by_threshold(self.fruit_percentage, FRUIT_BEVERAGES_THRESHOLD)

\* a plausible slip: cheese loses its protein points like the other solid foods
protein_points_kept_cheese(food_type, negative_points, protein_points) ==
    IF food_type \in {GENERAL_FOOD, RED_MEAT, CHEESE} THEN
        LET capped == IF food_type = RED_MEAT THEN Min(protein_points, 2) ELSE protein_points
        IN  IF negative_points >= 11 THEN 0 ELSE capped
    ELSE IF food_type = FATS_NUTS_SEEDS THEN
        IF negative_points >= 7 THEN 0 ELSE protein_points
    ELSE protein_points

\* the protein points after the cap and the exclusions of lines 146-156
protein_points_kept(food_type, negative_points, protein_points) ==
    IF food_type \in {GENERAL_FOOD, RED_MEAT, CHEESE} THEN
        LET capped == IF food_type = RED_MEAT THEN Min(protein_points, 2) ELSE protein_points
        IN  IF negative_points >= 11 /\ food_type # CHEESE THEN 0 ELSE capped
    ELSE IF food_type = FATS_NUTS_SEEDS THEN
        IF negative_points >= 7 THEN 0 ELSE protein_points
    ELSE protein_points

\* a plausible slip: the exclusion is applied below the threshold, not from it on
calculate_positive_points_inverted(self, food_type, negative_points) ==
    LET protein_points == protein_points_of(self, food_type)
        excluded == \/ food_type \in {GENERAL_FOOD, RED_MEAT} /\ negative_points < 11
                    \/ food_type = FATS_NUTS_SEEDS /\ negative_points < 7
    IN  (IF excluded THEN 0 ELSE protein_points)
        + fiber_points_of(self) + fruit_points_of(self, food_type)

\* calculate_positive_points(food_type, negative_points)
calculate_positive_points(self, food_type, negative_points) ==
    protein_points_kept(food_type, negative_points, protein_points_of(self, food_type))
    + fiber_points_of(self) + fruit_points_of(self, food_type)

\* a call's outcome on an instance: the instance afterwards and what came back
Outcome(self, r) == [calc |-> self, ret |-> r]

\* a plausible slip: water is not returned early
calculate_no_water(self, nutritions, food_type) ==
    IF food_type \notin FoodTypes THEN Outcome(self, Raised("ValueError"))
    ELSE LET got == get_input(self, nutritions)
             negative_points == calculate_negative_points(got, food_type)
             positive_points == calculate_positive_points(got, food_type, negative_points)
         IN  Outcome(got, Returned(negative_points - positive_points))

\* a plausible slip: the category is validated after the input was stored
calculate_late_check(self, nutritions, food_type) ==
    LET got == get_input(self, nutritions)
        negative_points == calculate_negative_points(got, food_type)
        positive_points == calculate_positive_points(got, food_type, negative_points)
    IN  IF food_type \notin FoodTypes THEN Outcome(got, Raised("ValueError"))
        ELSE IF food_type = WATER THEN Outcome(got, Returned(0))
        ELSE Outcome(got, Returned(negative_points - positive_points))

\* a plausible slip: the positive points are added, not subtracted
calculate_plus(self, nutritions, food_type) ==
    IF food_type \notin FoodTypes THEN Outcome(self, Raised("ValueError"))
    ELSE IF food_type = WATER THEN Outcome(self, Returned(0))
    ELSE LET got == get_input(self, nutritions)
             negative_points == calculate_negative_points(got, food_type)
             positive_points == calculate_positive_points(got, food_type, negative_points)
         IN  Outcome(got, Returned(negative_points + positive_points))

\* calculate(nutritions, food_type)
calculate(self, nutritions, food_type) ==
    IF food_type \notin FoodTypes THEN Outcome(self, Raised("ValueError"))
    ELSE IF food_type = WATER THEN Outcome(self, Returned(0))
    ELSE LET got == get_input(self, nutritions)
             negative_points == calculate_negative_points(got, food_type)
             positive_points == calculate_positive_points(got, food_type, negative_points)
         IN  Outcome(got, Returned(negative_points - positive_points))

\* a plausible slip: < in place of <= in the loop of categorize
RECURSIVE category_scan_strict(_, _, _)
category_scan_strict(score, category_threshold, i) ==
    IF i > Len(category_threshold) THEN "E"
    ELSE IF score < category_threshold[i][1] THEN category_threshold[i][2]
    ELSE category_scan_strict(score, category_threshold, i + 1)

\* the loop of categorize over the (threshold, category) pairs
RECURSIVE category_scan(_, _, _)
category_scan(score, category_threshold, i) ==
    IF i > Len(category_threshold) THEN "E"
    ELSE IF score <= category_threshold[i][1] THEN category_threshold[i][2]
    ELSE category_scan(score, category_threshold, i + 1)

\* categorize(score, food_type)
categorize(score, food_type) ==
    IF food_type = WATER THEN ReturnedCategory("A")
    ELSE IF food_type \in {GENERAL_FOOD, RED_MEAT, CHEESE}
        THEN ReturnedCategory(category_scan(score, GENERAL_FODD_CATEGORY_THRESHOLD, 1))
    ELSE IF food_type = FATS_NUTS_SEEDS
        THEN ReturnedCategory(category_scan(score, FATS_NUTS_SEEDS_CATEGORY_THRESHOLD, 1))
    ELSE IF food_type = BEVERAGES
        THEN ReturnedCategory(category_scan(score, BEVERAGES_CATEGORY_THRESHOLD, 1))
    ELSE Raised("ValueError")

\* calculate_category(nutritions, food_type): an exception of calculate propagates
calculate_category(self, nutritions, food_type) ==
    LET scored == calculate(self, nutritions, food_type)
    IN  IF scored.ret.status # "ok" THEN scored
        ELSE Outcome(scored.calc, categorize(scored.ret.score, food_type))

(***************************************************************************)
(* constants.py and helpers.py: the 0-100 scale                            *)
(***************************************************************************)
ENERGY_PROFILE_FACTOR == "energy_profile_factor"
SATURATION_PROFILE_FACTOR == "saturation_profile_factor"
SUGARS_PROFILE_FACTOR == "sugars_profile_factor"
SODIUM_PROFILE_FACTOR == "sodium_profile_factor"

\* data/nutri_score_conversion.json: stringified raw score -> {"solid", "liquid"}.
\* The file is not among the sources; a table is a non-increasing map of the interior
\* scores -3..18 given by its top value and its step.
ConversionTable(top, step) ==
    [k \in {ToString(s) : s \in -3..18} |->
        LET s == CHOOSE x \in -3..18 : ToString(x) = k
        IN  [solid |-> Max(0, top - step * (s + 3)),
             liquid |-> Max(0, top - 20 - 2 * step * (s + 3))]]

ConversionTables == {ConversionTable(100, 5), ConversionTable(96, 4), ConversionTable(90, 6)}

\* a plausible slip: <= in place of < at the lower clamp
convert_nutri_score_inclusive(table, nutri_score, solid) ==
    IF solid THEN
        IF nutri_score <= -3 THEN Returned(100)
        ELSE IF nutri_score >= 19 THEN Returned(0)
        ELSE IF ToString(nutri_score) \notin DOMAIN table THEN Raised("KeyError")
        ELSE Returned(table[ToString(nutri_score)].solid)
    ELSE
        IF nutri_score <= -3 THEN Returned(80)
        ELSE IF nutri_score >= 10 THEN Returned(0)
        ELSE IF ToString(nutri_score) \notin DOMAIN table THEN Raised("KeyError")
        ELSE Returned(table[ToString(nutri_score)].liquid)

\* convert_nutri_score(nutri_score, solid), reading the table at str(nutri_score)
convert_nutri_score(table, nutri_score, solid) ==
    IF solid THEN
        IF nutri_score < -3 THEN Returned(100)
        ELSE IF nutri_score >= 19 THEN Returned(0)
        ELSE IF ToString(nutri_score) \notin DOMAIN table THEN Raised("KeyError")
        ELSE Returned(table[ToString(nutri_score)].solid)
    ELSE
        IF nutri_score < -3 THEN Returned(80)
        ELSE IF nutri_score >= 10 THEN Returned(0)
        ELSE IF ToString(nutri_score) \notin DOMAIN table THEN Raised("KeyError")
        ELSE Returned(table[ToString(nutri_score)].liquid)

\* the dict calculate_nutriscore_scale_100 hands to setup_profiles
scale_100_profiles(profiles) ==
    [k \in {ENERGY, SATURATED_FAT, SUGARS, SODIUM} |->
        IF k = ENERGY THEN Get(profiles, ENERGY_PROFILE_FACTOR, ProfileDen)
        ELSE IF k = SATURATED_FAT THEN Get(profiles, SATURATION_PROFILE_FACTOR, ProfileDen)
        ELSE IF k = SUGARS THEN Get(profiles, SUGARS_PROFILE_FACTOR, ProfileDen)
        ELSE Get(profiles, SODIUM_PROFILE_FACTOR, ProfileDen)]

\* calculate_nutriscore_scale_100(nutritional_values, food_type, profiles): a calculator
\* of its own, configured, then calculate and the conversion
calculate_nutriscore_scale_100(table, nutritional_values, food_type, profiles) ==
    LET calculator == setup_profiles(NewCalculator, scale_100_profiles(profiles))
        scored == calculate(calculator, nutritional_values, food_type)
    IN  IF scored.ret.status # "ok" THEN scored.ret
        ELSE convert_nutri_score(table, scored.ret.score, food_type # BEVERAGES)

(***************************************************************************)
(* The inputs of the instance specification                                *)
(***************************************************************************)
\* the end-to-end example with the default profile
ExampleRecord ==
    [energy |-> 17000, saturated_fat |-> 40, sugars |-> 200, sodium |-> 10,
     fiber |-> 45, protein |-> 100, fruit_vegetables_legumes_percentage |-> 0]

\* nutrient records, some with missing keys
Records ==
    { ExampleRecord,
      EmptyDict,
      [protein |-> 180, fiber |-> 80, fruit_vegetables_legumes_percentage |-> 810],
      [energy |-> 34000, energy_from_saturates |-> 13000, saturated_fat |-> 110,
       saturates_over_total_fat |-> 650, sugars |-> 520,
       non_nutritive_sweeteners |-> TRUE, sodium |-> 41] }

\* the records handed to calculate_nutriscore_scale_100
ScaleRecords == {ExampleRecord, EmptyDict}

\* a category outside the enumeration
InvalidFoodType == "snack"
Categories == FoodTypes \cup {InvalidFoodType}

ProfileFactors == 1..MaxProfile

\* the dicts handed to setup_profiles: empty, one factor for all four keys, and the
\* strictest factor for sugars alone
ProfileDicts ==
    {EmptyDict}
    \cup {[k \in {ENERGY, SATURATED_FAT, SUGARS, SODIUM} |-> f] : f \in ProfileFactors}
    \cup {[k \in {SUGARS} |-> MaxProfile]}

\* the option dicts handed to calculate_nutriscore_scale_100
OptionDicts == {EmptyDict, [k \in {SUGARS_PROFILE_FACTOR} |-> MaxProfile]}

\* raw scores handed to categorize directly
CategorizeScores == {-6, 2, 19}

NoArgs == [nutritions |-> EmptyDict, food_type |-> "", profiles |-> EmptyDict, score |-> 0,
           solid |-> FALSE, additives |-> <<>>, reference |-> <<>>, response |-> EmptyDict,
           value |-> 0, threshold_list |-> <<>>]

(***************************************************************************)
(* Spec: one calculator instance and the calls made on it                  *)
(***************************************************************************)
Init ==
    /\ calc = NewCalculator
    /\ fn = "__init__"
    /\ args = NoArgs
    /\ ret = NoReturn
    /\ data = ConversionTable(100, 5)

SetupProfiles(profiles) ==
    /\ calc' = setup_profiles(calc, profiles)
    /\ fn' = "setup_profiles"
    /\ args' = [NoArgs EXCEPT !.profiles = profiles]
    /\ ret' = NoReturn
    /\ UNCHANGED data

Calculate(nutritions, food_type) ==
    LET out == calculate(calc, nutritions, food_type)
    IN  /\ calc' = out.calc
        /\ fn' = "calculate"
        /\ args' = [NoArgs EXCEPT !.nutritions = nutritions, !.food_type = food_type]
        /\ ret' = out.ret
        /\ UNCHANGED data

CalculateCategory(nutritions, food_type) ==
    LET out == calculate_category(calc, nutritions, food_type)
    IN  /\ calc' = out.calc
        /\ fn' = "calculate_category"
        /\ args' = [NoArgs EXCEPT !.nutritions = nutritions, !.food_type = food_type]
        /\ ret' = out.ret
        /\ UNCHANGED data

Categorize(score, food_type) ==
    /\ fn' = "categorize"
    /\ args' = [NoArgs EXCEPT !.score = score, !.food_type = food_type]
    /\ ret' = categorize(score, food_type)
    /\ UNCHANGED <<calc, data>>

CalculateNutriscoreScale100(nutritional_values, food_type, profiles) ==
    /\ fn' = "calculate_nutriscore_scale_100"
    /\ args' = [NoArgs EXCEPT !.nutritions = nutritional_values, !.food_type = food_type,
                              !.profiles = profiles]
    /\ ret' = calculate_nutriscore_scale_100(data, nutritional_values, food_type, profiles)
    /\ UNCHANGED <<calc, data>>

Next ==
    \/ \E profiles \in ProfileDicts : SetupProfiles(profiles)
    \/ \E nutritions \in Records, food_type \in Categories : Calculate(nutritions, food_type)
    \/ \E nutritions \in Records, food_type \in Categories :
            CalculateCategory(nutritions, food_type)
    \/ \E score \in CategorizeScores, food_type \in Categories : Categorize(score, food_type)
    \/ \E nutritions \in ScaleRecords, food_type \in Categories, profiles \in OptionDicts :
            CalculateNutriscoreScale100(nutritions, food_type, profiles)

Spec == Init /\ [][Next]_vars

(***************************************************************************)
(* Properties of the instance specification                                *)
(***************************************************************************)
\* the instance holds the default profile (all four factors 1)
DefaultProfile(self) ==
    /\ self.energy_profile = ProfileDen
    /\ self.saturated_fat_profile = ProfileDen
    /\ self.sugar_profile = ProfileDen
    /\ self.sodium_profile = ProfileDen

\* the last call was calculate on the end-to-end example: general food, default profile
ExampleCalculated ==
    /\ fn = "calculate"
    /\ args.nutritions = ExampleRecord
    /\ args.food_type = GENERAL_FOOD
    /\ DefaultProfile(calc)

\* C1: with the default profile, calculate on general_food with energy=1700,
\* saturated_fat=4, sugars=20, sodium=1.0, fiber=4.5, protein=10, fruit=0 returns 15
C1_ExampleScore == ExampleCalculated => ret = Returned(15)

C1_Witness == ExampleCalculated /\ ret.status = "ok" /\ ret.score = 15

\* C2 as stated: in the example the points are energy 5, saturated fat 3, sugars 6,
\* sodium 4, negative points 18; fiber 3, protein forced to 0, fruit 0, positive points 3
C2_Original ==
    ExampleCalculated =>
        /\ points_by_threshold(calc.energy, InProfileUnits(ENERGY_THRESHOLD)) = 5
        /\ points_by_threshold(calc.saturated_fat, InProfileUnits(SATURATED_FAT_THRESHOLD)) = 3
        /\ points_by_threshold(calc.sugars, InProfileUnits(SUGARS_THRESHOLD)) = 6
        /\ points_by_threshold(calc.sodium, InProfileUnits(SODIUM_THRESHOLD)) = 4
        /\ calculate_negative_points(calc, GENERAL_FOOD) = 18
        /\ fiber_points_of(calc) = 3
        /\ protein_points_kept(GENERAL_FOOD, 18, protein_points_of(calc, GENERAL_FOOD)) = 0
        /\ fruit_points_of(calc, GENERAL_FOOD) = 0
        /\ calculate_positive_points(calc, GENERAL_FOOD, 18) = 3

\* C2, amended: in the example the points are energy 5, saturated fat 3, sugars 5
\* (20 <= 20 stops the scan at index 5), sodium 4, negative points 17; fiber 2
\* (4.5 <= 5.2 stops it at index 2), protein 4 forced to 0 since 17 >= 11, fruit 0,
\* positive points 2
C2_ExamplePoints ==
    ExampleCalculated =>
        /\ points_by_threshold(calc.energy, InProfileUnits(ENERGY_THRESHOLD)) = 5
        /\ points_by_threshold(calc.saturated_fat, InProfileUnits(SATURATED_FAT_THRESHOLD)) = 3
        /\ points_by_threshold(calc.sugars, InProfileUnits(SUGARS_THRESHOLD)) = 5
        /\ points_by_threshold(calc.sodium, InProfileUnits(SODIUM_THRESHOLD)) = 4
        /\ calculate_negative_points(calc, GENERAL_FOOD) = 17
        /\ fiber_points_of(calc) = 2
        /\ protein_points_of(calc, GENERAL_FOOD) = 4
        /\ protein_points_kept(GENERAL_FOOD, 17, protein_points_of(calc, GENERAL_FOOD)) = 0
        /\ fruit_points_of(calc, GENERAL_FOOD) = 0
        /\ calculate_positive_points(calc, GENERAL_FOOD, 17) = 2

C2_Witness ==
    /\ ExampleCalculated
    /\ calc.sugars = 200 * ProfileDen
    /\ calc.fiber = 45
    /\ calculate_negative_points(calc, GENERAL_FOOD) = 17

\* C4: for water, calculate returns 0 and calculate_category and categorize return "A",
\* whatever the record, the profile and the earlier calls on the instance
C4_Water ==
    args.food_type = WATER =>
        /\ fn = "calculate" => ret = Returned(0)
        /\ fn \in {"calculate_category", "categorize"} => ret = ReturnedCategory("A")

\* a water call made on an instance that holds the nutrients of an earlier call
C4_Witness ==
    /\ fn \in {"calculate", "calculate_category"}
    /\ args.food_type = WATER
    /\ args.nutritions # EmptyDict
    /\ calc.protein > 0
    /\ ~DefaultProfile(calc)
    /\ ret.status = "ok"

\* C5: a call of calculate, calculate_category, categorize or
\* calculate_nutriscore_scale_100 with a category outside the six ends in the
\* invalid-category error, returns no score, and leaves the instance as it was
C5_InvalidCategory ==
    [][(/\ fn' \in {"calculate", "calculate_category", "categorize",
                    "calculate_nutriscore_scale_100"}
        /\ args'.food_type \notin FoodTypes)
       => (ret' = Raised("ValueError") /\ calc' = calc)]_vars

\* a failed call on an instance that holds the nutrients of an earlier call
C5_Witness ==
    /\ fn \in {"calculate", "calculate_category"}
    /\ args.food_type = InvalidFoodType
    /\ ret.status = "ValueError"
    /\ calc.energy > 0
    /\ args.nutritions = EmptyDict

\* the instance as constructed, holding the profile of self
FreshWithProfileOf(self) ==
    [NewCalculator EXCEPT !.energy_profile = self.energy_profile,
                          !.saturated_fat_profile = self.saturated_fat_profile,
                          !.sugar_profile = self.sugar_profile,
                          !.sodium_profile = self.sodium_profile]

\* C8: whatever calls came before, a call of calculate (or calculate_category) returns
\* what the same call returns on a freshly constructed instance with the same profile
C8_NoLeak ==
    /\ fn = "calculate" =>
        ret = calculate(FreshWithProfileOf(calc), args.nutritions, args.food_type).ret
    /\ fn = "calculate_category" =>
        ret = calculate_category(FreshWithProfileOf(calc), args.nutritions, args.food_type).ret

\* a call, on an instance whose profile an earlier setup_profiles changed, with a record
\* that leaves out the positive keys: the missing amounts count as 0
C8_Witness ==
    /\ fn = "calculate"
    /\ args.food_type \in {GENERAL_FOOD, RED_MEAT, CHEESE}
    /\ PROTEIN \notin DOMAIN args.nutritions
    /\ args.nutritions # EmptyDict
    /\ ret.status = "ok"
    /\ ret.score = 55
    /\ ~DefaultProfile(calc)

(***************************************************************************)
(* SpecGrid: one instance, configured once, then calculate called on a     *)
(* record that grows by one amount per call.  Every record of the grid     *)
(* GridValues is reached from the all-zero record.                         *)
(***************************************************************************)
NegativeKeys == {ENERGY, ENERGY_FROM_SATURATES, SATURATED_FAT, SATURATES_OVER_TOTAL_FAT,
                 SUGARS, NN_SWEETENERS, SODIUM}
PositiveKeys == {PROTEIN, FIBER, FRUIT_PERCENTAGE}

\* the amounts of the grid, in tenths: none, one beyond the last breakpoint and, for
\* sugars, sodium and protein, one in the middle of the table
GridValues ==
    [energy |-> {0, 34000},
     energy_from_saturates |-> {0, 13000},
     saturated_fat |-> {0, 110},
     saturates_over_total_fat |-> {0, 650},
     sugars |-> {0, 200, 520},
     sodium |-> {0, 10, 41},
     protein |-> {0, 20, 180},
     fiber |-> {0, 80},
     fruit_vegetables_legumes_percentage |-> {0, 810}]

GridBottom ==
    [energy |-> 0, energy_from_saturates |-> 0, saturated_fat |-> 0,
     saturates_over_total_fat |-> 0, sugars |-> 0, non_nutritive_sweeteners |-> FALSE,
     sodium |-> 0, protein |-> 0, fiber |-> 0, fruit_vegetables_legumes_percentage |-> 0]

\* the default profile, and one that is lenient on energy and sodium and strict on
\* saturated fat and sugars
GridProfileDicts ==
    {EmptyDict,
     [energy |-> 1, saturated_fat |-> MaxProfile, sugars |-> MaxProfile, sodium |-> 1]}

InitGrid ==
    /\ calc = NewCalculator
    /\ fn = "__init__"
    /\ args = NoArgs
    /\ ret = NoReturn
    /\ data = ConversionTable(100, 5)

GridSetupProfiles(profiles) ==
    /\ fn = "__init__"
    /\ SetupProfiles(profiles)

GridCalculate(food_type) ==
    /\ fn \in {"__init__", "setup_profiles"}
    /\ Calculate(GridBottom, food_type)

GridRaise(key, value) ==
    /\ fn = "calculate"
    /\ value > args.nutritions[key]
    /\ Calculate([args.nutritions EXCEPT ![key] = value], args.food_type)

GridSweetenerOn ==
    /\ fn = "calculate"
    /\ ~args.nutritions[NN_SWEETENERS]
    /\ Calculate([args.nutritions EXCEPT ![NN_SWEETENERS] = TRUE], args.food_type)

NextGrid ==
    \/ \E profiles \in GridProfileDicts : GridSetupProfiles(profiles)
    \/ \E food_type \in FoodTypes : GridCalculate(food_type)
    \/ \E key \in DOMAIN GridValues : \E value \in GridValues[key] : GridRaise(key, value)
    \/ GridSweetenerOn

SpecGrid == InitGrid /\ [][NextGrid]_vars

\* record m is record n with exactly one amount among keys raised (the sweetener flag
\* switched on) and every other entry equal
RaisedIn(keys, n, m) ==
    /\ DOMAIN n = DOMAIN GridBottom
    /\ DOMAIN m = DOMAIN GridBottom
    /\ \E k \in keys :
        /\ IF k = NN_SWEETENERS THEN ~n[k] /\ m[k] ELSE m[k] > n[k]
        /\ \A j \in DOMAIN n \ {k} : m[j] = n[j]

\* a step from one successful calculate call to another with the same category and
\* profile, whose record has one amount among keys raised
RaisedCall(keys) ==
    /\ fn = "calculate" /\ fn' = "calculate"
    /\ ret.status = "ok" /\ ret'.status = "ok"
    /\ args'.food_type = args.food_type
    /\ FreshWithProfileOf(calc') = FreshWithProfileOf(calc)
    /\ RaisedIn(keys, args.nutritions, args'.nutritions)

C6_NegativeMonotone ==
    [][RaisedCall(NegativeKeys) => ret'.score >= ret.score]_vars

\* a general food whose negative points went from 10 past 11 with sodium raised to 1.0,
\* so that its 7 protein points are excluded
C6_Witness ==
    /\ fn = "calculate"
    /\ args.food_type = GENERAL_FOOD
    /\ DefaultProfile(calc)
    /\ args.nutritions[SODIUM] = 10
    /\ calculate_negative_points(calc, GENERAL_FOOD) = 14
    /\ protein_points_of(calc, GENERAL_FOOD) = 7
    /\ ret.score = 14 - fiber_points_of(calc) - fruit_points_of(calc, GENERAL_FOOD)

\* C7: with category, profile and the other amounts fixed, raising fiber, protein or the
\* fruit percentage never raises the raw score
C7_PositiveMonotone ==
    [][RaisedCall(PositiveKeys) => ret'.score <= ret.score]_vars

\* red meat below 11 negative points with protein raised beyond the last breakpoint:
\* the 7 protein points count as 2
C7_Witness ==
    /\ fn = "calculate"
    /\ args.food_type = RED_MEAT
    /\ args.nutritions[PROTEIN] = 180
    /\ calculate_negative_points(calc, RED_MEAT) \in 1..10
    /\ ret.score = calculate_negative_points(calc, RED_MEAT) - 2
                   - fiber_points_of(calc) - fruit_points_of(calc, RED_MEAT)

(***************************************************************************)
(* SpecConv: convert_nutri_score on every raw score, for each table        *)
(***************************************************************************)
\* the raw scores handed to convert_nutri_score: the range of calculate and beyond
ConvertScores == -20..57

InitConv ==
    /\ calc = NewCalculator
    /\ fn = "__init__"
    /\ args = NoArgs
    /\ ret = NoReturn
    /\ data \in ConversionTables

ConvertNutriScore(nutri_score, solid) ==
    /\ fn' = "convert_nutri_score"
    /\ args' = [NoArgs EXCEPT !.score = nutri_score, !.solid = solid]
    /\ ret' = convert_nutri_score(data, nutri_score, solid)
    /\ UNCHANGED <<calc, data>>

NextConv ==
    \E nutri_score \in ConvertScores, solid \in BOOLEAN : ConvertNutriScore(nutri_score, solid)

SpecConv == InitConv /\ [][NextConv]_vars

\* C9: convert_nutri_score gives 100 (solid) or 80 (liquid) for every raw score below -3,
\* 0 for every raw score from 19 (solid) or 10 (liquid) on, and the table's entry for
\* the score and domain in between, -3 included
C9_Clamp ==
    fn = "convert_nutri_score" =>
        IF args.solid THEN
            /\ args.score < -3 => ret = Returned(100)
            /\ args.score >= 19 => ret = Returned(0)
            /\ args.score \in -3..18 => ret = Returned(data[ToString(args.score)].solid)
        ELSE
            /\ args.score < -3 => ret = Returned(80)
            /\ args.score >= 10 => ret = Returned(0)
            /\ args.score \in -3..9 => ret = Returned(data[ToString(args.score)].liquid)

\* a solid of raw score exactly -3 under a table whose entry there is not the clamp value
C9_Witness ==
    /\ fn = "convert_nutri_score"
    /\ args.solid
    /\ args.score = -3
    /\ data["-3"].solid # 100
    /\ ret = Returned(data["-3"].solid)

(***************************************************************************)
(* helpers.py: calculate_additive_risk                                     *)
(***************************************************************************)
\* constants.py, lines 17 and 20: the penalties by risk level 0..3
RISK_ADDITIVE_PRESENCE_PENALTY == <<0, 5, 15, 30>>
RISK_PER_ADDITIVE_PENALTY == <<0, 2, 5, 10>>

\* Python strings are sequences of characters here, so that "in" can be computed
E100 == <<"e", "1", "0", "0">>
E102 == <<"e", "1", "0", "2">>
E150 == <<"e", "1", "5", "0">>
E150a == <<"e", "1", "5", "0", "a">>
E150d == <<"e", "1", "5", "0", "d">>
E171 == <<"e", "1", "7", "1">>
E330 == <<"e", "3", "3", "0">>
E999 == <<"e", "9", "9", "9">>

\* data/additives.json: the reference records, in file order.  The file is not among
\* the sources; efsa_risk is a risk level or -1 for "unset", risk the fallback level.
AdditivesData ==
    << [e_number |-> E100, name |-> "curcumin", type |-> "colour", efsa_risk |-> 0, risk |-> 0],
       [e_number |-> E102, name |-> "tartrazine", type |-> "colour", efsa_risk |-> 2, risk |-> 3],
       [e_number |-> E150a, name |-> "plain caramel", type |-> "colour", efsa_risk |-> -1, risk |-> 1],
       [e_number |-> E150d, name |-> "sulphite ammonia caramel", type |-> "colour",
        efsa_risk |-> 2, risk |-> 1],
       [e_number |-> E171, name |-> "titanium dioxide", type |-> "colour", efsa_risk |-> 3, risk |-> 2],
       [e_number |-> E330, name |-> "citric acid", type |-> "acidity regulator",
        efsa_risk |-> -1, risk |-> 1] >>

\* Python's  a in b  on strings: a occurs in b as a contiguous piece
IsSubstring(a, b) ==
    \E start \in 0..(Len(b) - Len(a)) :
        \A i \in 1..Len(a) : b[start + i] = a[i]

\* Python's  list[i]: negative indexes count from the end
PyIndexable(list, i) == i \in (0 - Len(list))..(Len(list) - 1)
PyItem(list, i) == IF i >= 0 THEN list[i + 1] ELSE list[Len(list) + i + 1]

\* lines 371-374: the risk level of a matched record; item.get gives None for a key
\* the record does not have, and None != -1
risk_level_is_none(item) ==
    IF "efsa_risk" \notin DOMAIN item THEN TRUE
    ELSE item.efsa_risk = -1 /\ "risk" \notin DOMAIN item
risk_level_of(item) == IF item.efsa_risk # -1 THEN item.efsa_risk ELSE item.risk

\* lines 376-380: one matched (record, identifier) pair
additive_matched(st, item, additive) ==
    LET risk_level == risk_level_of(item)
    IN  IF risk_level_is_none(item)
        THEN [st EXCEPT !.status = "TypeError"]
        ELSE IF ~PyIndexable(st.risk_level_present, risk_level)
        THEN [st EXCEPT !.status = "IndexError"]
        ELSE [st EXCEPT
                !.risk_level_present =
                    [st.risk_level_present EXCEPT
                        ![IF risk_level >= 0 THEN risk_level + 1
                          ELSE Len(st.risk_level_present) + risk_level + 1] = TRUE],
                !.total_risk = st.total_risk + PyItem(RISK_PER_ADDITIVE_PENALTY, risk_level),
                !.additives_list =
                    Append(st.additives_list,
                           [e_number |-> additive, name |-> item.name, type |-> item.type,
                            risk |-> risk_level])]

\* lines 367-380: for item in data: for additive in additives, from pair (i, j) on
RECURSIVE additive_loop(_, _, _, _, _)
additive_loop(reference, additives, i, j, st) ==
    IF i > Len(reference) \/ st.status # "ok" THEN st
    ELSE IF j > Len(additives) THEN additive_loop(reference, additives, i + 1, 1, st)
    ELSE IF IsSubstring(additives[j], reference[i].e_number)
        THEN additive_loop(reference, additives, i, j + 1,
                           additive_matched(st, reference[i], additives[j]))
    ELSE additive_loop(reference, additives, i, j + 1, st)

\* a plausible slip: the loop does not break, every level present adds its penalty
RECURSIVE presence_penalty_no_break(_, _)
presence_penalty_no_break(risk_level_present, i) ==
    IF i < 0 THEN 0
    ELSE (IF risk_level_present[i + 1] THEN RISK_ADDITIVE_PRESENCE_PENALTY[i + 1] ELSE 0)
         + presence_penalty_no_break(risk_level_present, i - 1)

\* lines 383-386: from level i down, the penalty of the first level present
RECURSIVE presence_penalty(_, _)
presence_penalty(risk_level_present, i) ==
    IF i < 0 THEN 0
    ELSE IF risk_level_present[i + 1] THEN RISK_ADDITIVE_PRESENCE_PENALTY[i + 1]
    ELSE presence_penalty(risk_level_present, i - 1)

\* calculate_additive_risk(additives) against the reference records
calculate_additive_risk(reference, additives) ==
    LET start == [status |-> "ok", risk_level_present |-> <<FALSE, FALSE, FALSE, FALSE>>,
                  total_risk |-> 0, additives_list |-> <<>>]
        st == additive_loop(reference, additives, 1, 1, start)
    IN  IF st.status # "ok" THEN Raised(st.status)
        ELSE ReturnedPair(st.total_risk
                          + presence_penalty(st.risk_level_present,
                                             Len(st.risk_level_present) - 1),
                          st.additives_list)

(***************************************************************************)
(* SpecAdd: calculate_additive_risk on every list of identifiers           *)
(***************************************************************************)
\* the identifiers a caller supplies: four e-numbers of the reference, one that is
\* only a piece of two of them, one unknown, and the empty string
AdditiveIds == {E100, E102, E150, E171, E330, E999, <<>>}

AdditiveLists == UNION {[1..n -> AdditiveIds] : n \in 0..MaxAdditives}

InitAdd ==
    /\ calc = NewCalculator
    /\ fn = "__init__"
    /\ args \in {[NoArgs EXCEPT !.additives = a, !.reference = AdditivesData] :
                    a \in AdditiveLists}
    /\ ret = NoReturn
    /\ data = ConversionTable(100, 5)

CalculateAdditiveRisk ==
    /\ fn = "__init__"
    /\ fn' = "calculate_additive_risk"
    /\ ret' = calculate_additive_risk(args.reference, args.additives)
    /\ UNCHANGED <<calc, args, data>>

NextAdd == CalculateAdditiveRisk

SpecAdd == InitAdd /\ [][NextAdd]_vars

\* the (record, identifier) pairs that calculate_additive_risk matches
MatchedPairs(reference, additives) ==
    {p \in (DOMAIN reference) \X (DOMAIN additives) :
        IsSubstring(additives[p[2]], reference[p[1]].e_number)}

\* the effective risk ordinal of a reference record
Ordinal(item) == IF item.efsa_risk \in 0..3 THEN item.efsa_risk ELSE item.risk

\* the sum of the per-item penalties 0, 2, 5, 10 over a set of matched pairs
RECURSIVE PerItemSum(_, _)
PerItemSum(reference, pairs) ==
    IF pairs = {} THEN 0
    ELSE LET p == CHOOSE q \in pairs : TRUE
             o == Ordinal(reference[p[1]])
         IN  (CASE o = 0 -> 0 [] o = 1 -> 2 [] o = 2 -> 5 [] o = 3 -> 10)
             + PerItemSum(reference, pairs \ {p})

\* the presence penalty 0, 5, 15, 30 of the highest ordinal among the matched pairs
HighestPresence(reference, pairs) ==
    IF pairs = {} THEN 0
    ELSE LET top == CHOOSE o \in 0..3 :
                        /\ \E p \in pairs : Ordinal(reference[p[1]]) = o
                        /\ \A p \in pairs : Ordinal(reference[p[1]]) <= o
         IN  CASE top = 0 -> 0 [] top = 1 -> 5 [] top = 2 -> 15 [] top = 3 -> 30

\* C10: the penalty calculate_additive_risk returns is the sum of the per-item penalty
\* over every matched (record, identifier) pair plus the presence penalty of the highest
\* ordinal matched, once; 0 without a match; 2+10+30 = 42 for ordinals 1 and 3 matched
\* once each
C10_AdditivePenalty ==
    (fn = "calculate_additive_risk" /\ ret.status = "ok") =>
        LET pairs == MatchedPairs(AdditivesData, args.additives)
        IN  /\ ret.score = PerItemSum(AdditivesData, pairs)
                           + HighestPresence(AdditivesData, pairs)
            /\ Len(ret.list) = Cardinality(pairs)
            /\ pairs = {} => ret.score = 0
            /\ args.additives = <<E330, E171>> => ret.score = 42

\* ordinals 1 (e330, by the fallback) and 3 (e171) matched once each
C10_Witness ==
    /\ fn = "calculate_additive_risk"
    /\ args.additives = <<E330, E171>>
    /\ Len(ret.list) = 2
    /\ ret.score = 42

(***************************************************************************)
(* helpers.py: fetch_and_calculate and process_image_and_calculate         *)
(***************************************************************************)
MAX_ADDITIVES_PENALTY == "max_additives_penalty"
NON_ORGANIC_PENALTY == "non_organic_penalty"
MAX_ADDITIVES_PENALTY_DEFAULT_VALUE == 50
NON_ORGANIC_PENALTY_DEFAULT_VALUE == 10

\* a returned score record (final_score is also the score of the result), and None
ReturnedRecord(record) ==
    [status |-> "ok", score |-> record.final_score, category |-> "",
     list |-> record.additives, record |-> record]
ReturnedNone == [status |-> "None", score |-> 0, category |-> "", list |-> <<>>]

\* Python's  x or default  on a number that may be missing: 0 and None are false
GetOr(d, key, default) ==
    IF key \in DOMAIN d /\ d[key] # 0 THEN d[key] ELSE default

\* lines 88-103 and 127-135: the last item of a component list with the id gives the
\* value, 0 when the item has none
RECURSIVE component_value(_, _, _)
component_value(items, id, i) ==
    IF i = 0 THEN 0
    ELSE IF Get(items[i], "id", "") = id THEN Get(items[i], "value", 0)
    ELSE component_value(items, id, i - 1)

\* line 100-101: the sweetener item sets the flag to 4 whatever its value
component_present(items, id) == \E i \in DOMAIN items : Get(items[i], "id", "") = id

\* lines 78-119: the negative amounts of the product, from the component list when it
\* is not empty, else from the flat keys
negative_components(nutriscore_2023_data) ==
    LET negative == Get(Get(nutriscore_2023_data, "components", EmptyDict), "negative", <<>>)
        listed(id) == component_value(negative, id, Len(negative))
        flat(id) == GetOr(nutriscore_2023_data, id, 0)
        of(id) == IF negative # <<>> THEN listed(id) ELSE flat(id)
        sweet == IF negative # <<>> THEN component_present(negative, "non_nutritive_sweeteners")
                 ELSE Get(nutriscore_2023_data, "non_nutritive_sweeteners", 0) # 0
    IN  [energy |-> of("energy"),
         energy_from_saturates |-> of("energy_from_saturated_fat"),
         saturated_fat |-> of("saturated_fat"),
         saturates_over_total_fat |-> of("saturated_fat_ratio"),
         sugars |-> of("sugars"),
         non_nutritive_sweeteners |-> IF sweet THEN 4 ELSE 0,
         sodium |-> of("salt")]

\* lines 121-142: the positive amounts, the same way
positive_components(nutriscore_2023_data) ==
    LET positive == Get(Get(nutriscore_2023_data, "components", EmptyDict), "positive", <<>>)
        listed(id) == component_value(positive, id, Len(positive))
        flat(id) == GetOr(nutriscore_2023_data, id, 0)
        of(id) == IF positive # <<>> THEN listed(id) ELSE flat(id)
    IN  [protein |-> of("proteins"),
         fiber |-> of("fiber"),
         fruit_vegetables_legumes_percentage |-> of("fruits_vegetables_legumes")]

\* lines 157-169: the category by the first flag set; without a flag the code reads
\* ns.GENERAL_FODD, a name nutri_score.py does not define
fetch_food_type(nutriscore_2023_data) ==
    LET flag(key) == Get(nutriscore_2023_data, key, FALSE)
    IN  IF flag("is_red_meat_product") THEN [status |-> "ok", food_type |-> RED_MEAT]
        ELSE IF flag("is_cheese") THEN [status |-> "ok", food_type |-> CHEESE]
        ELSE IF flag("is_fat_oil_nuts_seeds") THEN [status |-> "ok", food_type |-> FATS_NUTS_SEEDS]
        ELSE IF flag("is_beverage") THEN [status |-> "ok", food_type |-> BEVERAGES]
        ELSE IF flag("is_water") THEN [status |-> "ok", food_type |-> WATER]
        ELSE [status |-> "AttributeError", food_type |-> ""]

\* the calculator tests the sweetener entry for truth only: 4 is true, 0 false
calculator_input(nutritions) ==
    [nutritions EXCEPT ![NN_SWEETENERS] = (@ # 0)]

\* line 175: additive.replace("en:", "")
RECURSIVE replace_en(_)
replace_en(additive) ==
    IF additive = <<>> THEN <<>>
    ELSE IF Len(additive) >= 3 /\ SubSeq(additive, 1, 3) = <<"e", "n", ":">>
        THEN replace_en(SubSeq(additive, 4, Len(additive)))
    ELSE <<Head(additive)>> \o replace_en(Tail(additive))

\* lines 184-185: "en:organic" in labels
is_organic(labels) == \E i \in DOMAIN labels : labels[i] = "en:organic"

\* fetch_and_calculate(barcode, profiles), given the response of the product service
\* to the barcode.  The name, brand, image and ingredients of the product are copied
\* to the record unread and are left out.  On a status other than 200 the code reads
\* response.status, an attribute a response does not have.
fetch_and_calculate(table, reference, response, profiles) ==
    IF response.status_code # 200 THEN Raised("AttributeError")
    ELSE IF response.product = EmptyDict THEN ReturnedNone
    ELSE
        LET product == response.product
            nutriscore_2023_data == Get(product, "nutriscore_2023_data", EmptyDict)
            nutritions == negative_components(nutriscore_2023_data)
                          @@ positive_components(nutriscore_2023_data)
            typed == fetch_food_type(nutriscore_2023_data)
            nutriscore_scaled_100 ==
                calculate_nutriscore_scale_100(table, calculator_input(nutritions),
                                               typed.food_type, profiles)
            tags == Get(product, "additives_tags", <<>>)
            additives == [i \in DOMAIN tags |-> replace_en(tags[i])]
            max_additive_penalty ==
                GetOr(profiles, MAX_ADDITIVES_PENALTY, MAX_ADDITIVES_PENALTY_DEFAULT_VALUE)
            risk == calculate_additive_risk(reference, additives)
            additives_risk == Min(risk.score, max_additive_penalty)
            organic == is_organic(Get(product, "labels_tags", <<>>))
            non_organic_penalty ==
                IF ~organic
                THEN Get(profiles, NON_ORGANIC_PENALTY, NON_ORGANIC_PENALTY_DEFAULT_VALUE)
                ELSE 0
            final_score ==
                Max(nutriscore_scaled_100.score - additives_risk - non_organic_penalty, 0)
        IN  IF typed.status # "ok" THEN Raised(typed.status)
            ELSE IF nutriscore_scaled_100.status # "ok" THEN nutriscore_scaled_100
            ELSE IF risk.status # "ok" THEN risk
            ELSE ReturnedRecord(
                    [nutriscore_scaled_100 |-> nutriscore_scaled_100.score,
                     additives |-> risk.list,
                     additives_risk |-> additives_risk,
                     organic |-> organic,
                     final_score |-> final_score,
                     food_type |-> typed.food_type,
                     nutritions |-> nutritions])

\* process_image_and_calculate(image_path, food_type, profiles), given the amounts
\* extract_all_nutrient_info read from the image
process_image_and_calculate(table, nutritions, food_type, profiles) ==
    LET nutriscore_scaled_100 ==
            calculate_nutriscore_scale_100(table, calculator_input(nutritions), food_type,
                                           profiles)
    IN  IF nutriscore_scaled_100.status # "ok" THEN nutriscore_scaled_100
        ELSE ReturnedRecord(
                [nutriscore_scaled_100 |-> nutriscore_scaled_100.score,
                 additives |-> <<>>,
                 additives_risk |-> 0,
                 organic |-> FALSE,
                 final_score |-> nutriscore_scaled_100.score,
                 food_type |-> food_type,
                 nutritions |-> nutritions])

\* process_image.py, lines 172-194: the record extract_all_nutrient_info builds from
\* the seven amounts read off the label.  The ratio is kept to a whole tenth; the
\* amounts of ImageAmounts divide exactly.
extract_all_nutrient_info(amounts) ==
    [energy |-> amounts.energy,
     energy_from_saturates |-> amounts.saturated_fat * 9,
     saturated_fat |-> amounts.saturated_fat,
     saturates_over_total_fat |->
        IF amounts.fat # 0 THEN (10 * amounts.saturated_fat) \div amounts.fat ELSE 0,
     sugars |-> amounts.sugars,
     non_nutritive_sweeteners |-> 0,
     sodium |-> amounts.sodium,
     protein |-> amounts.protein,
     fiber |-> amounts.fiber,
     fruit_vegetables_legumes_percentage |-> 0,
     fat |-> amounts.fat]

(***************************************************************************)
(* SpecFetch: one request, answered by fetch_and_calculate or by           *)
(* process_image_and_calculate                                             *)
(***************************************************************************)
\* the products of the service, amounts in tenths: none; a red meat with a component
\* list and three additive tags; an organic cheese with flat keys; a sweetened
\* beverage; a water; an oil flagged as a beverage too; a product without a category
\* flag
FetchProducts ==
    { EmptyDict,
      [nutriscore_2023_data |->
          [is_red_meat_product |-> TRUE,
           components |->
              [negative |-> << [id |-> "energy", value |-> 5000],
                               [id |-> "saturated_fat", value |-> 20],
                               [id |-> "sugars"],
                               [id |-> "salt", value |-> 5] >>,
               positive |-> << [id |-> "proteins", value |-> 180],
                               [id |-> "fiber", value |-> 0] >>]],
       additives_tags |-> << <<"e", "n", ":">> \o E171, <<"e", "n", ":">> \o E102,
                             <<"e", "n", ":">> \o E150 >>,
       labels_tags |-> <<>>],
      [nutriscore_2023_data |->
          [is_cheese |-> TRUE, energy |-> 15000, saturated_fat |-> 110, salt |-> 15,
           proteins |-> 180],
       labels_tags |-> <<"en:vegetarian", "en:organic">>],
      [nutriscore_2023_data |->
          [is_beverage |-> TRUE,
           components |->
              [negative |-> << [id |-> "sugars", value |-> 50],
                               [id |-> "non_nutritive_sweeteners", value |-> 1] >>],
           fruits_vegetables_legumes |-> 410],
       additives_tags |-> << <<"e", "n", ":">> \o E330 >>],
      [nutriscore_2023_data |-> [is_water |-> TRUE],
       labels_tags |-> <<"en:organic">>],
      [nutriscore_2023_data |->
          [is_red_meat_product |-> FALSE, is_beverage |-> TRUE,
           is_fat_oil_nuts_seeds |-> TRUE, energy_from_saturated_fat |-> 13000,
           saturated_fat_ratio |-> 650, fiber |-> 80]],
      [nutriscore_2023_data |->
          [energy |-> 17000, saturated_fat |-> 40, sugars |-> 200, salt |-> 10,
           fiber |-> 45, proteins |-> 100],
       additives_tags |-> <<>>] }

\* the responses of the service: each product, and a failure
FetchResponses ==
    {[status_code |-> 200, product |-> p] : p \in FetchProducts}
    \cup {[status_code |-> 404, product |-> EmptyDict]}

\* the profiles of a request: a cap or none, a non-organic penalty or none, a factor
\* or none
CapValues == {0, 20, 60}
PenaltyValues == {0, 25}
FetchProfiles ==
    { cap @@ penalty @@ factors :
        cap \in {EmptyDict} \cup {[k \in {MAX_ADDITIVES_PENALTY} |-> v] : v \in CapValues},
        penalty \in {EmptyDict} \cup {[k \in {NON_ORGANIC_PENALTY} |-> v] : v \in PenaltyValues},
        factors \in OptionDicts }

\* the amounts read off a label, in tenths
ImageAmounts ==
    { [energy |-> 0, fat |-> 0, saturated_fat |-> 0, sugars |-> 0, sodium |-> 0,
       protein |-> 0, fiber |-> 0],
      [energy |-> 17000, fat |-> 100, saturated_fat |-> 40, sugars |-> 200, sodium |-> 10,
       protein |-> 100, fiber |-> 45],
      [energy |-> 34000, fat |-> 220, saturated_fat |-> 110, sugars |-> 520, sodium |-> 41,
       protein |-> 0, fiber |-> 0] }

InitFetch ==
    /\ calc = NewCalculator
    /\ fn = "__init__"
    /\ args \in {[NoArgs EXCEPT !.response = r, !.profiles = p, !.reference = AdditivesData,
                                !.nutritions = extract_all_nutrient_info(a),
                                !.food_type = t] :
                    r \in FetchResponses, p \in FetchProfiles, a \in ImageAmounts,
                    t \in Categories}
    /\ ret = NoReturn
    /\ data = ConversionTable(100, 5)

FetchAndCalculate ==
    /\ fn = "__init__"
    /\ fn' = "fetch_and_calculate"
    /\ ret' = fetch_and_calculate(data, args.reference, args.response, args.profiles)
    /\ UNCHANGED <<calc, args, data>>

ProcessImageAndCalculate ==
    /\ fn = "__init__"
    /\ fn' = "process_image_and_calculate"
    /\ ret' = process_image_and_calculate(data, args.nutritions, args.food_type,
                                          args.profiles)
    /\ UNCHANGED <<calc, args, data>>

NextFetch ==
    \/ FetchAndCalculate
    \/ ProcessImageAndCalculate

SpecFetch == InitFetch /\ [][NextFetch]_vars

\* C11 as stated: the additives_risk of a record of fetch_and_calculate is the smaller
\* of the penalty calculate_additive_risk computed and the configured cap, for every
\* configured cap, 0 included; the cap is 50 only when the option is absent
C11_CapEnforced ==
    (fn = "fetch_and_calculate" /\ ret.status = "ok") =>
        LET tags == Get(args.response.product, "additives_tags", <<>>)
            computed == calculate_additive_risk(args.reference,
                                                [i \in DOMAIN tags |-> replace_en(tags[i])])
            cap == Get(args.profiles, MAX_ADDITIVES_PENALTY,
                       MAX_ADDITIVES_PENALTY_DEFAULT_VALUE)
        IN  ret.record.additives_risk = Min(computed.score, cap)

\* C12 as stated: calculate_additive_risk matches an identifier with a reference
\* record only when the identifier equals the record's e-number, so every entry of the
\* detail list carries the e-number of a reference record, there is one entry per
\* equal (record, identifier) pair, and a piece of an e-number or the empty string
\* matches nothing
C12_ExactMatch ==
    (fn = "calculate_additive_risk" /\ ret.status = "ok") =>
        /\ \A k \in DOMAIN ret.list :
                \E i \in DOMAIN AdditivesData :
                    AdditivesData[i].e_number = ret.list[k].e_number
        /\ Len(ret.list) =
                Cardinality({p \in (DOMAIN AdditivesData) \X (DOMAIN args.additives) :
                                args.additives[p[2]] = AdditivesData[p[1]].e_number})

(***************************************************************************)
(* SpecRisk: calculate_additive_risk against reference files whose record  *)
(* of e171 has no efsa_risk, or one outside 0..3                           *)
(***************************************************************************)
\* the reference file with the efsa_risk of its fifth record (e171, fallback 2) set
WithEfsaRisk(efsa_risk) ==
    [AdditivesData EXCEPT ![5] = [@ EXCEPT !.efsa_risk = efsa_risk]]

\* the reference file with no efsa_risk in its fifth record
WithoutEfsaRisk ==
    [AdditivesData EXCEPT
        ![5] = [k \in (DOMAIN AdditivesData[5]) \ {"efsa_risk"} |-> AdditivesData[5][k]]]

ReferenceFiles ==
    {AdditivesData, WithoutEfsaRisk} \cup {WithEfsaRisk(r) : r \in {-2, -1, 4}}

InitRisk ==
    /\ calc = NewCalculator
    /\ fn = "__init__"
    /\ args \in {[NoArgs EXCEPT !.additives = a, !.reference = f] :
                    a \in AdditiveLists, f \in ReferenceFiles}
    /\ ret = NoReturn
    /\ data = ConversionTable(100, 5)

SpecRisk == InitRisk /\ [][NextAdd]_vars

\* the effective risk ordinal of a record whose efsa_risk may be missing
EffectiveOrdinal(item) ==
    IF "efsa_risk" \in DOMAIN item /\ item.efsa_risk \in 0..3 THEN item.efsa_risk
    ELSE item.risk

\* C13 as stated: calculate_additive_risk does not fail when the efsa_risk of a matched
\* record is absent, -1 or outside 0..3, and every entry of the detail list reports the
\* effective ordinal of its record (efsa_risk when present and in 0..3, else risk),
\* which is in 0..3
C13_EffectiveOrdinal ==
    (fn = "calculate_additive_risk") =>
        /\ ret.status = "ok"
        /\ \A k \in DOMAIN ret.list :
            /\ ret.list[k].risk \in 0..3
            /\ \E i \in DOMAIN args.reference :
                /\ args.reference[i].name = ret.list[k].name
                /\ ret.list[k].risk = EffectiveOrdinal(args.reference[i])

\* C14 as stated: in every score record, of fetch_and_calculate and of
\* process_image_and_calculate alike, final_score is nutriscore_scaled_100 minus
\* additives_risk minus the non-organic penalty (0 for an organic product, else the
\* configured penalty, 10 when absent), raised to 0 when negative
C14_FinalScore ==
    (fn \in {"fetch_and_calculate", "process_image_and_calculate"} /\ ret.status = "ok") =>
        LET record == ret.record
            penalty == IF record.organic THEN 0
                       ELSE Get(args.profiles, NON_ORGANIC_PENALTY,
                                NON_ORGANIC_PENALTY_DEFAULT_VALUE)
        IN  /\ record.final_score =
                    Max(record.nutriscore_scaled_100 - record.additives_risk - penalty, 0)
            /\ record.final_score >= 0

(***************************************************************************)
(* SpecProfile: one instance, configured once with any four factors, then  *)
(* one calculate                                                           *)
(***************************************************************************)
\* every dict of four factors
AllProfileDicts == [{ENERGY, SATURATED_FAT, SUGARS, SODIUM} -> ProfileFactors]

\* the records: each profiled amount absent or a multiple of ProfileDen tenths, so
\* that the amount times a factor is a whole number of tenths (sugars 10 g for
\* ProfileDen = 2); protein, fiber and fruit fixed; the sweetener flag either way
ProfileRecords ==
    { [energy |-> ProfileDen * e, energy_from_saturates |-> ProfileDen * (e \div 3),
       saturated_fat |-> ProfileDen * s, saturates_over_total_fat |-> ProfileDen * s * 6,
       sugars |-> ProfileDen * u, non_nutritive_sweeteners |-> w, sodium |-> ProfileDen * o,
       protein |-> 100, fiber |-> 45, fruit_vegetables_legumes_percentage |-> 410] :
        e \in {0, 3000}, s \in {0, 15}, u \in {0, 50}, o \in {0, 2}, w \in BOOLEAN }

InitProfile ==
    /\ calc = NewCalculator
    /\ fn = "__init__"
    /\ args = NoArgs
    /\ ret = NoReturn
    /\ data = ConversionTable(100, 5)

ProfileSetupProfiles(profiles) ==
    /\ fn = "__init__"
    /\ SetupProfiles(profiles)

ProfileCalculate(nutritions, food_type) ==
    /\ fn \in {"__init__", "setup_profiles"}
    /\ Calculate(nutritions, food_type)

NextProfile ==
    \/ \E profiles \in AllProfileDicts : ProfileSetupProfiles(profiles)
    \/ \E nutritions \in ProfileRecords, food_type \in FoodTypes :
            ProfileCalculate(nutritions, food_type)

SpecProfile == InitProfile /\ [][NextProfile]_vars

\* the record n with each profiled amount multiplied by the factor of the instance
\* (the energy factor on both energies, the saturated fat factor on the saturated fat
\* and its share of the fat)
ScaledRecord(self, n) ==
    [n EXCEPT
        ![ENERGY] = (@ * self.energy_profile) \div ProfileDen,
        ![ENERGY_FROM_SATURATES] = (@ * self.energy_profile) \div ProfileDen,
        ![SATURATED_FAT] = (@ * self.saturated_fat_profile) \div ProfileDen,
        ![SATURATES_OVER_TOTAL_FAT] = (@ * self.saturated_fat_profile) \div ProfileDen,
        ![SUGARS] = (@ * self.sugar_profile) \div ProfileDen,
        ![SODIUM] = (@ * self.sodium_profile) \div ProfileDen]

\* the instance with one factor raised to f
WithFactor(self, factor, f) == [self EXCEPT ![factor] = f]

\* C15: the raw score of calculate with factors k on amounts v is the raw score of the
\* default profile on the amounts k*v; with one of the four factors raised and the
\* record kept the raw score is not lower; protein, fiber, the fruit percentage and the
\* sweetener flag reach the instance unscaled
C15_ProfileScaling ==
    (fn = "calculate" /\ ret.status = "ok" /\ args.food_type # WATER) =>
        /\ ret = calculate(NewCalculator, ScaledRecord(calc, args.nutritions),
                           args.food_type).ret
        /\ \A factor \in {"energy_profile", "saturated_fat_profile", "sugar_profile",
                          "sodium_profile"} :
            \A f \in ProfileFactors :
                f > calc[factor] =>
                    calculate(WithFactor(calc, factor, f), args.nutritions,
                              args.food_type).ret.score >= ret.score
        /\ calc.protein = args.nutritions[PROTEIN]
        /\ calc.fiber = args.nutritions[FIBER]
        /\ calc.fruit_percentage = args.nutritions[FRUIT_PERCENTAGE]
        /\ calc.nn_sweeteners = args.nutritions[NN_SWEETENERS]

\* a call with a sugars factor above 1 that scores higher than the default profile
\* does on the same record
C15_Witness ==
    /\ fn = "calculate"
    /\ ret.status = "ok"
    /\ calc.sugar_profile > ProfileDen
    /\ calc.energy_profile = ProfileDen
    /\ args.nutritions[SUGARS] > 0
    /\ ret.score > calculate(NewCalculator, args.nutritions, args.food_type).ret.score

(***************************************************************************)
(* SpecPoints: points_by_threshold on every table of nutri_score.py, at    *)
(* every breakpoint and next to it                                         *)
(***************************************************************************)
ThresholdTables ==
    {ENERGY_THRESHOLD, SATURATED_FAT_THRESHOLD, SUGARS_THRESHOLD, SODIUM_THRESHOLD,
     ENERGY_FROM_SATURATES_THRESHOLD, SATURATES_OVER_TOTAL_FAT_THRESHOLD,
     ENERGY_BEVERAGES_THRESHOLD, SUGARS_BEVERAGES_THRESHOLD,
     PROTEIN_THRESHOLD, FIBER_THRESHOLD, FRUIT_THRESHOLD,
     PROTEIN_BEVERAGES_THRESHOLD, FRUIT_BEVERAGES_THRESHOLD}

\* the values tried on a table, in tenths: 0, each breakpoint, one tenth below and one
\* tenth above it
PointValues(threshold_list) ==
    {0} \cup {threshold_list[i] + d : i \in DOMAIN threshold_list, d \in {-1, 0, 1}}

InitPoints ==
    /\ calc = NewCalculator
    /\ fn = "__init__"
    /\ args = NoArgs
    /\ ret = NoReturn
    /\ data = ConversionTable(100, 5)

PointsByThreshold(value, threshold_list) ==
    /\ fn' = "points_by_threshold"
    /\ args' = [NoArgs EXCEPT !.value = value, !.threshold_list = threshold_list]
    /\ ret' = Returned(points_by_threshold(value, threshold_list))
    /\ UNCHANGED <<calc, data>>

NextPoints ==
    \E threshold_list \in ThresholdTables :
        \E value \in PointValues(threshold_list) : PointsByThreshold(value, threshold_list)

SpecPoints == InitPoints /\ [][NextPoints]_vars

\* C16: points_by_threshold returns the index of the first breakpoint that is >= the
\* value, the length of the table when there is none; the result is in 0..length, is
\* the number of breakpoints strictly below the value, also in the tables with repeated
\* breakpoints, and does not decrease when the value grows on the same table
C16_Points ==
    /\ [](fn = "points_by_threshold" =>
            LET t == args.threshold_list
                v == args.value
            IN  /\ ret.score \in 0..Len(t)
                /\ ret.score = Cardinality({i \in DOMAIN t : t[i] < v})
                /\ \A i \in 1..ret.score : t[i] < v
                /\ ret.score < Len(t) => v <= t[ret.score + 1])
    /\ [][(/\ fn = "points_by_threshold" /\ fn' = "points_by_threshold"
           /\ args'.threshold_list = args.threshold_list
           /\ args'.value >= args.value) => ret'.score >= ret.score]_vars

\* the fruit table 40, 60, 80, 80, 80: 80 gets 2 points, 80.1 gets 5
C16_Witness ==
    /\ fn = "points_by_threshold"
    /\ args.threshold_list = FRUIT_THRESHOLD
    /\ args.value = FRUIT_THRESHOLD[5] + 1
    /\ ret.score = 5
    /\ points_by_threshold(FRUIT_THRESHOLD[5], FRUIT_THRESHOLD) = 2

(***************************************************************************)
(* Further properties of SpecGrid                                          *)
(***************************************************************************)
\* the points of an amount of the instance read off a table
TablePoints(amount, threshold_list) == Cardinality({i \in DOMAIN threshold_list :
                                                        threshold_list[i] < amount})

\* C17: the positive points of calculate are the fiber points plus the fruit points,
\* never removed, plus the protein points under the category's rule: red_meat at most 2
\* and 0 from 11 negative points on, general_food 0 from 11 on, cheese always in full,
\* fats_oils_nuts_seeds 0 from 7 on, beverages in full
C17_ProteinRules ==
    (fn = "calculate" /\ ret.status = "ok" /\ args.food_type # WATER) =>
        LET food_type == args.food_type
            negative_points == calculate_negative_points(calc, food_type)
            positive_points == negative_points - ret.score
            beverage == food_type = BEVERAGES
            protein == TablePoints(calc.protein, IF beverage THEN PROTEIN_BEVERAGES_THRESHOLD
                                                 ELSE PROTEIN_THRESHOLD)
            fiber == TablePoints(calc.fiber, FIBER_THRESHOLD)
            fruit == TablePoints(calc.fruit_percentage,
                                 IF beverage THEN FRUIT_BEVERAGES_THRESHOLD ELSE FRUIT_THRESHOLD)
            kept == CASE food_type = RED_MEAT ->
                            IF negative_points >= 11 THEN 0
                            ELSE IF protein > 2 THEN 2 ELSE protein
                      [] food_type = GENERAL_FOOD ->
                            IF negative_points >= 11 THEN 0 ELSE protein
                      [] food_type = CHEESE -> protein
                      [] food_type = FATS_NUTS_SEEDS ->
                            IF negative_points >= 7 THEN 0 ELSE protein
                      [] food_type = BEVERAGES -> protein
        IN  positive_points = kept + fiber + fruit

\* a cheese with 20 negative points keeps the 7 points of its protein
C17_Witness ==
    /\ fn = "calculate"
    /\ args.food_type = CHEESE
    /\ DefaultProfile(calc)
    /\ args.nutritions = [GridBottom EXCEPT ![ENERGY] = 34000, ![SATURATED_FAT] = 110,
                                            ![PROTEIN] = 180]
    /\ ret = Returned(13)

\* C18: a call that differs from the one before only in energy or saturated_fat gives
\* the same result for fats_oils_nuts_seeds; one that differs only in
\* energy_from_saturates or saturates_over_total_fat gives the same result for
\* general_food, red_meat, cheese and beverages; one that differs only in the sweetener
\* flag gives the same result in every category but beverages
C18_Frame ==
    [][/\ (RaisedCall({ENERGY, SATURATED_FAT}) /\ args.food_type = FATS_NUTS_SEEDS)
            => ret' = ret
       /\ (/\ RaisedCall({ENERGY_FROM_SATURATES, SATURATES_OVER_TOTAL_FAT})
           /\ args.food_type \in {GENERAL_FOOD, RED_MEAT, CHEESE, BEVERAGES})
            => ret' = ret
       /\ (RaisedCall({NN_SWEETENERS}) /\ args.food_type # BEVERAGES)
            => ret' = ret]_vars

\* a fats_oils_nuts_seeds record with the highest energy and saturated fat of the grid
\* and the sweetener flag set scores 0, as the all-zero record does
C18_Witness ==
    /\ fn = "calculate"
    /\ args.food_type = FATS_NUTS_SEEDS
    /\ args.nutritions = [GridBottom EXCEPT ![ENERGY] = 34000, ![SATURATED_FAT] = 110,
                                            ![NN_SWEETENERS] = TRUE]
    /\ ret = Returned(0)

\* lines 126-129 and 106-109: the table each of the four amounts is scored against,
\* for beverages and for general_food, red_meat and cheese
beverages_tables ==
    [energy |-> ENERGY_BEVERAGES_THRESHOLD, saturated_fat |-> SATURATED_FAT_THRESHOLD,
     sugars |-> SUGARS_BEVERAGES_THRESHOLD, sodium |-> SODIUM_THRESHOLD]
solid_tables ==
    [energy |-> ENERGY_THRESHOLD, saturated_fat |-> SATURATED_FAT_THRESHOLD,
     sugars |-> SUGARS_THRESHOLD, sodium |-> SODIUM_THRESHOLD]

\* the negative points behind the score of a beverage: the score plus the positive
\* points, which for beverages are the three table readings
BeverageNegativePoints ==
    ret.score + TablePoints(calc.protein, PROTEIN_BEVERAGES_THRESHOLD)
              + TablePoints(calc.fiber, FIBER_THRESHOLD)
              + TablePoints(calc.fruit_percentage, FRUIT_BEVERAGES_THRESHOLD)

\* the points of the four amounts of the instance against the tables of beverages,
\* plus 4 when the sweetener flag is set
BeverageTableSum ==
    TablePoints(calc.energy, InProfileUnits(beverages_tables[ENERGY]))
    + TablePoints(calc.saturated_fat, InProfileUnits(beverages_tables[SATURATED_FAT]))
    + TablePoints(calc.sugars, InProfileUnits(beverages_tables[SUGARS]))
    + TablePoints(calc.sodium, InProfileUnits(beverages_tables[SODIUM]))
    + (IF calc.nn_sweeteners THEN 4 ELSE 0)

\* C19 as stated: the negative points of a beverage are the points of energy, saturated
\* fat, sugars and sodium, each against a beverage table that is not the table of the
\* solid foods, plus 4 exactly when sweeteners are present
C19_Original ==
    (fn = "calculate" /\ ret.status = "ok" /\ args.food_type = BEVERAGES) =>
        /\ BeverageNegativePoints = BeverageTableSum
        /\ \A k \in DOMAIN beverages_tables : beverages_tables[k] # solid_tables[k]

\* C19: the negative points of a beverage are the points of energy and sugars, each
\* against a beverage table that is not the table of the solid foods, the points of
\* saturated fat and sodium against the tables of the solid foods, plus 4 exactly when
\* sweeteners are present
C19_BeverageNegative ==
    (fn = "calculate" /\ ret.status = "ok" /\ args.food_type = BEVERAGES) =>
        /\ BeverageNegativePoints = BeverageTableSum
        /\ {k \in DOMAIN beverages_tables : beverages_tables[k] # solid_tables[k]}
                = {ENERGY, SUGARS}

\* a sweetened beverage with 20 g of sugars and 11 g of saturated fat: 10 + 10 + 4
C19_Witness ==
    /\ fn = "calculate"
    /\ args.food_type = BEVERAGES
    /\ DefaultProfile(calc)
    /\ args.nutritions = [GridBottom EXCEPT ![SUGARS] = 200, ![SATURATED_FAT] = 110,
                                            ![NN_SWEETENERS] = TRUE]
    /\ ret = Returned(24)

(***************************************************************************)
(* SpecCat: categorize on every raw score, for each category               *)
(***************************************************************************)
InitCat ==
    /\ calc = NewCalculator
    /\ fn = "__init__"
    /\ args = NoArgs
    /\ ret = NoReturn
    /\ data = ConversionTable(100, 5)

NextCat ==
    \E score \in ConvertScores, food_type \in Categories : Categorize(score, food_type)

SpecCat == InitCat /\ [][NextCat]_vars

\* the place of a letter, A the best
LetterRank(letter) ==
    CASE letter = "A" -> 1 [] letter = "B" -> 2 [] letter = "C" -> 3
      [] letter = "D" -> 4 [] letter = "E" -> 5

\* C20: categorize gives every raw score one letter: for general_food, red_meat and
\* cheese A up to 0, B up to 2, C up to 10, D up to 18; for fats_oils_nuts_seeds A up
\* to -6, B up to 2, C up to 10, D up to 18; for beverages B up to 1, C up to 6, D up
\* to 9 and never A; for water always A; E beyond the last threshold; and within a
\* category a higher score never gets a better letter
C20_Categorize ==
    /\ [](fn = "categorize" /\ args.food_type \in FoodTypes =>
            LET score == args.score
                food_type == args.food_type
            IN  /\ ret.status = "ok"
                /\ ret.category =
                    (CASE food_type \in {GENERAL_FOOD, RED_MEAT, CHEESE} ->
                            IF score <= 0 THEN "A" ELSE IF score <= 2 THEN "B"
                            ELSE IF score <= 10 THEN "C" ELSE IF score <= 18 THEN "D"
                            ELSE "E"
                       [] food_type = FATS_NUTS_SEEDS ->
                            IF score <= -6 THEN "A" ELSE IF score <= 2 THEN "B"
                            ELSE IF score <= 10 THEN "C" ELSE IF score <= 18 THEN "D"
                            ELSE "E"
                       [] food_type = BEVERAGES ->
                            IF score <= 1 THEN "B" ELSE IF score <= 6 THEN "C"
                            ELSE IF score <= 9 THEN "D" ELSE "E"
                       [] food_type = WATER -> "A"))
    /\ [][(/\ fn = "categorize" /\ fn' = "categorize"
           /\ args.food_type \in FoodTypes
           /\ args'.food_type = args.food_type
           /\ args'.score >= args.score)
            => LetterRank(ret'.category) >= LetterRank(ret.category)]_vars

\* the best beverage gets B, and a beverage at the threshold 1 still does
C20_Witness ==
    /\ fn = "categorize"
    /\ args.food_type = BEVERAGES
    /\ args.score = 1
    /\ ret = ReturnedCategory("B")
    /\ categorize(-20, BEVERAGES) = ReturnedCategory("B")

(***************************************************************************)
(* SpecConc: two invocations of calculate_nutriscore_scale_100 running     *)
(* concurrently, one step of one invocation at a time.  In this            *)
(* specification calc is the heap of calculator instances, in order of     *)
(* construction, and fn, args and ret have one entry per invocation: fn    *)
(* the step the invocation is at with its local variables, args its        *)
(* arguments, ret what it returned or raised.                              *)
(***************************************************************************)
Invocations == {1, 2}

\* a plausible slip: one instance kept at module level and handed to every invocation
NutriScoreCalculator_shared(heap) ==
    [heap |-> IF heap = <<>> THEN <<NewCalculator>> ELSE heap, calculator |-> 1]

\* line 270, ns.NutriScoreCalculator(): a new instance on the heap, and the reference
\* to it
NutriScoreCalculator(heap) ==
    [heap |-> Append(heap, NewCalculator), calculator |-> Len(heap) + 1]

\* the records, categories and option dicts of the invocations
ConcRecords ==
    { ExampleRecord,
      [energy |-> 34000, energy_from_saturates |-> 13000, saturated_fat |-> 110,
       saturates_over_total_fat |-> 650, sugars |-> 520,
       non_nutritive_sweeteners |-> TRUE, sodium |-> 41] }
ConcCategories == {GENERAL_FOOD, BEVERAGES, WATER, InvalidFoodType}

\* an invocation before its first step
StartFrame == [pc |-> "NutriScoreCalculator", calculator |-> 0, negative_points |-> 0,
               score |-> 0]

InitConc ==
    /\ calc = <<>>
    /\ fn = [i \in Invocations |-> StartFrame]
    /\ args \in [Invocations ->
                    {[NoArgs EXCEPT !.nutritions = n, !.food_type = t, !.profiles = p] :
                        n \in ConcRecords, t \in ConcCategories, p \in OptionDicts}]
    /\ ret = [i \in Invocations |-> NoReturn]
    /\ data = ConversionTable(100, 5)

\* line 270: calculator = ns.NutriScoreCalculator()
ConcConstruct(i) ==
    /\ fn[i].pc = "NutriScoreCalculator"
    /\ LET new == NutriScoreCalculator(calc)
       IN  /\ calc' = new.heap
           /\ fn' = [fn EXCEPT ![i].pc = "setup_profiles", ![i].calculator = new.calculator]
    /\ UNCHANGED <<args, ret, data>>

\* lines 273-280: calculator.setup_profiles({...})
ConcSetupProfiles(i) ==
    /\ fn[i].pc = "setup_profiles"
    /\ calc' = [calc EXCEPT ![fn[i].calculator] =
                    setup_profiles(@, scale_100_profiles(args[i].profiles))]
    /\ fn' = [fn EXCEPT ![i].pc = "get_input"]
    /\ UNCHANGED <<args, ret, data>>

\* line 282 and nutri_score.py, lines 187-194: calculate checks the category, returns 0
\* for water, else calls get_input
ConcGetInput(i) ==
    /\ fn[i].pc = "get_input"
    /\ IF args[i].food_type \notin FoodTypes
       THEN /\ ret' = [ret EXCEPT ![i] = Raised("ValueError")]
            /\ fn' = [fn EXCEPT ![i].pc = "done"]
            /\ UNCHANGED calc
       ELSE IF args[i].food_type = WATER
       THEN /\ fn' = [fn EXCEPT ![i].pc = "convert_nutri_score", ![i].score = 0]
            /\ UNCHANGED <<calc, ret>>
       ELSE /\ calc' = [calc EXCEPT ![fn[i].calculator] = get_input(@, args[i].nutritions)]
            /\ fn' = [fn EXCEPT ![i].pc = "calculate_negative_points"]
            /\ UNCHANGED ret
    /\ UNCHANGED <<args, data>>

\* nutri_score.py, line 195: negative_points = self.calculate_negative_points(food_type)
ConcNegativePoints(i) ==
    /\ fn[i].pc = "calculate_negative_points"
    /\ fn' = [fn EXCEPT
                ![i].pc = "calculate_positive_points",
                ![i].negative_points =
                    calculate_negative_points(calc[fn[i].calculator], args[i].food_type)]
    /\ UNCHANGED <<calc, args, ret, data>>

\* nutri_score.py, lines 196-197: the positive points, and the raw score returned
ConcPositivePoints(i) ==
    /\ fn[i].pc = "calculate_positive_points"
    /\ fn' = [fn EXCEPT
                ![i].pc = "convert_nutri_score",
                ![i].score =
                    fn[i].negative_points
                    - calculate_positive_points(calc[fn[i].calculator], args[i].food_type,
                                                fn[i].negative_points)]
    /\ UNCHANGED <<calc, args, ret, data>>

\* lines 285-287: the conversion, and the return
ConcConvert(i) ==
    /\ fn[i].pc = "convert_nutri_score"
    /\ ret' = [ret EXCEPT ![i] = convert_nutri_score(data, fn[i].score,
                                                     args[i].food_type # BEVERAGES)]
    /\ fn' = [fn EXCEPT ![i].pc = "done"]
    /\ UNCHANGED <<calc, args, data>>

NextConc ==
    \E i \in Invocations :
        \/ ConcConstruct(i)
        \/ ConcSetupProfiles(i)
        \/ ConcGetInput(i)
        \/ ConcNegativePoints(i)
        \/ ConcPositivePoints(i)
        \/ ConcConvert(i)

SpecConc == InitConc /\ [][NextConc]_vars

\* C21: two concurrent invocations of calculate_nutriscore_scale_100 never hold the
\* same calculator instance, and under every interleaving of their steps each returns
\* (or raises) what calculate_nutriscore_scale_100 gives for its arguments when run
\* alone
C21_OwnInstance ==
    /\ \A i, j \in Invocations :
        (i # j /\ fn[i].calculator # 0 /\ fn[j].calculator # 0)
            => fn[i].calculator # fn[j].calculator
    /\ \A i \in Invocations :
        fn[i].pc = "done" =>
            ret[i] = calculate_nutriscore_scale_100(data, args[i].nutritions,
                                                    args[i].food_type, args[i].profiles)

\* both invocations in the middle of calculate, the second one constructed first, on
\* different records and with different profiles in their instances
C21_Witness ==
    /\ fn[1].pc = "calculate_positive_points"
    /\ fn[2].pc = "calculate_negative_points"
    /\ fn[1].calculator = 2
    /\ fn[2].calculator = 1
    /\ args[1].nutritions # args[2].nutritions
    /\ calc[1].sugar_profile # calc[2].sugar_profile
    /\ calc[1].sugars # calc[2].sugars

\* the category the flags of a product stand for: the first flag set, in the order red
\* meat, cheese, fats, beverage, water; general_food without a flag
FlaggedCategory(nutriscore_2023_data) ==
    LET set(key) == key \in DOMAIN nutriscore_2023_data /\ nutriscore_2023_data[key]
    IN  CASE set("is_red_meat_product") -> RED_MEAT
          [] ~set("is_red_meat_product") /\ set("is_cheese") -> CHEESE
          [] ~set("is_red_meat_product") /\ ~set("is_cheese") /\ set("is_fat_oil_nuts_seeds")
                -> FATS_NUTS_SEEDS
          [] ~set("is_red_meat_product") /\ ~set("is_cheese") /\ ~set("is_fat_oil_nuts_seeds")
             /\ set("is_beverage") -> BEVERAGES
          [] ~set("is_red_meat_product") /\ ~set("is_cheese") /\ ~set("is_fat_oil_nuts_seeds")
             /\ ~set("is_beverage") /\ set("is_water") -> WATER
          [] OTHER -> GENERAL_FOOD

\* C22 as stated: fetch_and_calculate gives every fetched product one of the six
\* categories, by the first flag set and general_food without a flag, and in each case,
\* the no-flag case included, returns a score record with that category
C22_OneCategory ==
    (/\ fn = "fetch_and_calculate"
     /\ args.response.status_code = 200
     /\ args.response.product # EmptyDict) =>
        /\ ret.status = "ok"
        /\ ret.record.food_type \in FoodTypes
        /\ ret.record.food_type =
                FlaggedCategory(Get(args.response.product, "nutriscore_2023_data", EmptyDict))

====
